---- MODULE Spec2Model ----
(***************************************************************************)
(* FieldspaceSolver (copypasta_quantum_engine.py): the constructor and     *)
(* run_cycle, with the five collaborator objects the solver calls.         *)
(*                                                                         *)
(* Python values are tagged records, so that None, a str and an int are    *)
(* distinct values that can be compared for equality.  A collaborator call *)
(* answers with a value or with Raise (the call raised an exception).      *)
(***************************************************************************)
EXTENDS Integers, Sequences, FiniteSets, TLC

VARIABLES
    state,             \* self.state
    operator_library,  \* self.operator_library (a dict)
    memory_trace,      \* self.memory_trace (a list)
    collab,            \* which collaborator methods are installed
    has_analyze,       \* perception_engine has analyze_geometric_pattern
    initial_state,     \* the constructor's argument
    last,              \* the last run_cycle call: its input and what it did
    caller_writes,     \* writes of the caller to operator_library so far
    observed           \* what the three-cycle driver has seen, one entry a call

vars == <<state, operator_library, memory_trace, collab, has_analyze,
          initial_state, last, caller_writes, observed>>

---------------------------------------------------------------------------
(* Bounds *)

MaxCycles == 3

MaxCallerWrites == 1

---------------------------------------------------------------------------
(* Python values *)

PyInt(n) == [tag |-> "int", val |-> n]

None == [tag |-> "None", val |-> 0]

Str == [tag |-> "str", val |-> 0]

Raise == [tag |-> "raise", val |-> 0]

Unset == [tag |-> "unset", val |-> 0]

IsInt(v) == v.tag = "int"

\* current + input on Python ints; any other operand type raises TypeError
Add(a, b) == IF IsInt(a) /\ IsInt(b) THEN PyInt(a.val + b.val) ELSE Raise

\* new - old on Python ints
Sub(a, b) == IF IsInt(a) /\ IsInt(b) THEN PyInt(a.val - b.val) ELSE Raise

\* variant: a comparison that orders None and str below every number
GtZeroLenient(v) == IF IsInt(v) /\ v.val > 0 THEN "true" ELSE "false"

\* x > 0: defined on numbers; None > 0 and 'text' > 0 raise TypeError
GtZero(v) == IF IsInt(v) THEN (IF v.val > 0 THEN "true" ELSE "false") ELSE "TypeError"

---------------------------------------------------------------------------
(* The values the injected collaborators answer with *)

SeedAnswers == {PyInt(0), PyInt(1), Raise}

PathAnswers == {PyInt(1), Raise}

TensionAnswers == {PyInt(0), PyInt(1), Raise}

CoherenceAnswers == {PyInt(-1), PyInt(0), PyInt(1), None, Str, Raise}

PatternAnswers == {PyInt(0), Raise}

OperatorAnswers == {Str, Raise}

Inputs == {PyInt(1), PyInt(2), PyInt(3)}

InitialStates == {PyInt(0), None}

EmptyDict == [k \in {} |-> None]

\* one answer for each call site of run_cycle
NoAnswers ==
    [seed |-> None, path |-> None, t_old |-> None, t_new |-> None,
     coh |-> None, pat |-> None, op |-> None]

---------------------------------------------------------------------------
(* The collaborator methods.  collab says which methods the solver's       *)
(* engines carry: "stub" the classes as shipped (every body is `pass`, so  *)
(* every call returns None), "det" the deterministic ones (next state is   *)
(* current + input, tension is the state itself, coherence is new - old;   *)
(* the seed and operator methods stay as shipped), "any" injected methods  *)
(* that answer with an arbitrary value or raise (the answer a).            *)

get_next_seed(c, a) == IF c = "any" THEN a ELSE None

perceive_tension(c, s, a) ==
    CASE c = "stub" -> None
      [] c = "det"  -> s
      [] OTHER      -> a

evaluate_coherence(c, old_tension, new_tension, a) ==
    CASE c = "stub" -> None
      [] c = "det"  -> Sub(new_tension, old_tension)
      [] OTHER      -> a

compute_geodesic_path(c, h_current, x_input, a) ==
    CASE c = "stub" -> None
      [] c = "det"  -> Add(h_current, x_input)
      [] OTHER      -> a

generate_new_operator(c, geometric_pattern, a) == IF c = "any" THEN a ELSE None

\* not defined by PerceptionAndEvaluationEngine; an engine that has it
\* (has_analyze) answers with the state it is given, or as injected
analyze_geometric_pattern(c, s, a) == IF c = "any" THEN a ELSE s

---------------------------------------------------------------------------
(* run_cycle, statement by statement.  A frame holds the call's locals,    *)
(* self.state, the calls made so far in order, and whether the call is     *)
(* still running, has returned or has raised.                              *)

Entry(fn, args, ret) == [fn |-> fn, args |-> args, ret |-> ret]

\* a collaborator call binding a local: log it, keep the value or raise
Bind(f, local, fn, args, ret) ==
    LET logged == [f EXCEPT !.calls = Append(@, Entry(fn, args, ret))]
    IN  IF ret = Raise
        THEN [logged EXCEPT !.status = "raised", !.exc = "Collaborator"]
        ELSE [logged EXCEPT ![local] = ret]

\* h_current = self.state
Enter(self_state) ==
    [status |-> "running", exc |-> "none", state |-> self_state,
     h_current |-> self_state, pi_seed |-> Unset, h_next |-> Unset,
     old_tension |-> Unset, new_tension |-> Unset, fitness_score |-> Unset,
     geometric_pattern |-> Unset, calls |-> <<>>]

\* pi_seed = self.pi_engine.get_next_seed()
DrawSeed(f, c, ans) ==
    IF f.status # "running" THEN f
    ELSE Bind(f, "pi_seed", "get_next_seed", <<>>, get_next_seed(c, ans.seed))

\* variant: the seed steers the path
PathArgsSeeded(f, x_input) == <<f.pi_seed, x_input>>

PathArgs(f, x_input) == <<f.h_current, x_input>>

\* variant: the path is assigned to self.state at once
NavigateCommitting(f, c, x_input, ans) ==
    IF f.status # "running" THEN f
    ELSE LET a == PathArgs(f, x_input)
             g == Bind(f, "h_next", "compute_geodesic_path", a,
                       compute_geodesic_path(c, a[1], a[2], ans.path))
         IN  IF g.status = "running" THEN [g EXCEPT !.state = g.h_next] ELSE g

\* h_next = self.lambda_navigator.compute_geodesic_path(h_current, x_input)
Navigate(f, c, x_input, ans) ==
    IF f.status # "running" THEN f
    ELSE LET a == PathArgs(f, x_input)
         IN  Bind(f, "h_next", "compute_geodesic_path", a,
                  compute_geodesic_path(c, a[1], a[2], ans.path))

\* old_tension = self.perception_engine.perceive_tension(h_current)
PerceiveOld(f, c, ans) ==
    IF f.status # "running" THEN f
    ELSE Bind(f, "old_tension", "perceive_tension", <<f.h_current>>,
              perceive_tension(c, f.h_current, ans.t_old))

\* new_tension = self.perception_engine.perceive_tension(h_next)
PerceiveNew(f, c, ans) ==
    IF f.status # "running" THEN f
    ELSE Bind(f, "new_tension", "perceive_tension", <<f.h_next>>,
              perceive_tension(c, f.h_next, ans.t_new))

\* variant: the two measurements swapped
CoherenceArgsSwapped(f) == <<f.new_tension, f.old_tension>>

CoherenceArgs(f) == <<f.old_tension, f.new_tension>>

\* fitness_score = self.perception_engine.evaluate_coherence(old_tension, new_tension)
Evaluate(f, c, ans) ==
    IF f.status # "running" THEN f
    ELSE LET a == CoherenceArgs(f)
         IN  Bind(f, "fitness_score", "evaluate_coherence", a,
                  evaluate_coherence(c, a[1], a[2], ans.coh))

\* variant: fitness_score >= 0
ThresholdInclusive(fitness_score) ==
    IF IsInt(fitness_score) /\ fitness_score.val = 0 THEN "true"
    ELSE GtZero(fitness_score)

\* fitness_score > 0
Threshold(fitness_score) == GtZero(fitness_score)

\* geometric_pattern = self.perception_engine.analyze_geometric_pattern(h_next):
\* the attribute lookup raises AttributeError on an engine without the method
Analyze(f, c, has, ans) ==
    IF f.status # "running" THEN f
    ELSE IF ~has THEN [f EXCEPT !.status = "raised", !.exc = "AttributeError"]
    ELSE Bind(f, "geometric_pattern", "analyze_geometric_pattern", <<f.h_next>>,
              analyze_geometric_pattern(c, f.h_next, ans.pat))

\* self.linguistic_core.generate_new_operator(geometric_pattern); the result
\* is dropped
Generate(f, c, ans) ==
    IF f.status # "running" THEN f
    ELSE LET ret == generate_new_operator(c, f.geometric_pattern, ans.op)
             logged == [f EXCEPT !.calls =
                 Append(@, Entry("generate_new_operator", <<f.geometric_pattern>>, ret))]
         IN  IF ret = Raise
             THEN [logged EXCEPT !.status = "raised", !.exc = "Collaborator"]
             ELSE logged

\* if fitness_score > 0: ...
Learn(f, c, has, ans) ==
    IF f.status # "running" THEN f
    ELSE CASE Threshold(f.fitness_score) = "TypeError" ->
                [f EXCEPT !.status = "raised", !.exc = "TypeError"]
           [] Threshold(f.fitness_score) = "true" ->
                Generate(Analyze(f, c, has, ans), c, ans)
           [] OTHER -> f

\* variant: the new measurement is stored as the state
CommitTension(f) ==
    IF f.status # "running" THEN f
    ELSE [f EXCEPT !.state = f.new_tension, !.status = "returned",
                   !.calls = Append(@, Entry("self.state", <<f.new_tension>>, None))]

\* self.state = h_next, and the call returns
Commit(f) ==
    IF f.status # "running" THEN f
    ELSE [f EXCEPT !.state = f.h_next, !.status = "returned",
                   !.calls = Append(@, Entry("self.state", <<f.h_next>>, None))]

RunCycle(self_state, x_input, c, has, ans) ==
    Commit(Learn(Evaluate(PerceiveNew(PerceiveOld(
        Navigate(DrawSeed(Enter(self_state), c, ans), c, x_input, ans),
        c, ans), c, ans), c, ans), c, has, ans))

\* variant: the pattern is stored under one fixed key
LibraryOverwritten(lib, f) ==
    IF f.status = "returned" /\ f.geometric_pattern # Unset
    THEN [k \in DOMAIN lib \cup {"center"} |->
              IF k = "center" THEN f.geometric_pattern ELSE lib[k]]
    ELSE lib

\* run_cycle never assigns self.operator_library or self.memory_trace
LibraryAfter(lib, f) == lib

TraceAfter(trace, f) == trace

---------------------------------------------------------------------------
(* The solver object and its callers *)


\* variant: the argument is not stored
ConstructUnset(s0) ==
    [state |-> None, operator_library |-> EmptyDict, memory_trace |-> <<>>,
     calls |-> <<>>]

\* __init__(initial_state): the five engines are built (their constructors
\* are the default ones and call nothing), then the three attributes are set
Construct(s0) ==
    [state |-> s0, operator_library |-> EmptyDict, memory_trace |-> <<>>,
     calls |-> <<>>]

NoCycle ==
    [ran |-> FALSE, x_input |-> None, before |-> None, library |-> EmptyDict,
     ans |-> NoAnswers, f |-> Enter(None)]

InitWith(modes) ==
    /\ collab \in modes
    /\ has_analyze \in (IF collab = "stub" THEN {FALSE} ELSE BOOLEAN)
    /\ initial_state \in (IF collab = "det" THEN {PyInt(0)} ELSE InitialStates)
    /\ LET self == Construct(initial_state)
       IN  /\ state = self.state
           /\ operator_library = self.operator_library
           /\ memory_trace = self.memory_trace
           /\ last = [NoCycle EXCEPT !.f.calls = self.calls]
    /\ caller_writes = 0
    /\ observed = <<>>

Init == InitWith({"stub", "any"})

InitDet == InitWith({"det"})

\* the answers the injected methods give in one call of run_cycle; a call
\* site the cycle does not reach has no answer (None)
Reached(alive, answers) == IF alive THEN answers ELSE {None}

\* one call of run_cycle(x_input) by the caller, from entry to return or raise
Cycle(x_input, ans) ==
    LET f == RunCycle(state, x_input, collab, has_analyze, ans)
    IN  /\ state' = f.state
        /\ operator_library' = LibraryAfter(operator_library, f)
        /\ memory_trace' = TraceAfter(memory_trace, f)
        /\ last' = [ran |-> TRUE, x_input |-> x_input, before |-> state,
                    library |-> operator_library, ans |-> ans, f |-> f]
        /\ UNCHANGED <<collab, has_analyze, initial_state, caller_writes>>

AnyCycle(x_input) ==
    \E s \in Reached(collab = "any", SeedAnswers) :
    \E p \in Reached(collab = "any" /\ s # Raise, PathAnswers) :
    \E t1 \in Reached(collab = "any" /\ s # Raise /\ p # Raise, TensionAnswers) :
    \E t2 \in Reached(collab = "any" /\ s # Raise /\ p # Raise /\ t1 # Raise,
                      TensionAnswers) :
    \E co \in Reached(collab = "any" /\ s # Raise /\ p # Raise /\ t1 # Raise
                      /\ t2 # Raise, CoherenceAnswers) :
    \E pa \in Reached(collab = "any" /\ s # Raise /\ p # Raise /\ t1 # Raise
                      /\ t2 # Raise /\ co = PyInt(1) /\ has_analyze, PatternAnswers) :
    \E o \in Reached(collab = "any" /\ s # Raise /\ p # Raise /\ t1 # Raise
                     /\ t2 # Raise /\ co = PyInt(1) /\ has_analyze /\ pa # Raise,
                     OperatorAnswers) :
        Cycle(x_input, [seed |-> s, path |-> p, t_old |-> t1, t_new |-> t2,
                         coh |-> co, pat |-> pa, op |-> o])

run_cycle ==
    \E x_input \in Inputs :
        /\ AnyCycle(x_input)
        /\ UNCHANGED observed

\* the three-cycle run: the driver notes each call's input, the state and
\* the fitness score after it and whether an operator was generated
Generated(f) == \E i \in 1..Len(f.calls) : f.calls[i].fn = "generate_new_operator"

three_cycles ==
    /\ Len(observed) < MaxCycles
    /\ \E x_input \in Inputs :
        /\ AnyCycle(x_input)
        /\ observed' = Append(observed,
               [x_input |-> x_input, state |-> state',
                fitness_score |-> last'.f.fitness_score,
                generated |-> Generated(last'.f), status |-> last'.f.status])

\* the caller stores an entry in the public attribute operator_library
OperatorKeys == {"center"}

OperatorValues == {Str}

caller_adds_operator ==
    /\ caller_writes < MaxCallerWrites
    /\ \E k \in OperatorKeys, v \in OperatorValues :
        operator_library' = [j \in DOMAIN operator_library \cup {k} |->
                                IF j = k THEN v ELSE operator_library[j]]
    /\ caller_writes' = caller_writes + 1
    /\ UNCHANGED <<state, memory_trace, collab, has_analyze, initial_state,
                   last, observed>>

Next == run_cycle \/ caller_adds_operator

Spec == Init /\ [][Next]_vars

NextDet == three_cycles \/ caller_adds_operator

SpecDet == InitDet /\ [][NextDet]_vars

---------------------------------------------------------------------------
(* Properties.  They read the last call of run_cycle: its input, the       *)
(* state and the registry it found, and the frame it ended with.           *)

Calls == last.f.calls

CallsTo(fn) == Cardinality({i \in 1..Len(Calls) : Calls[i].fn = fn})

Returned == last.ran /\ last.f.status = "returned"

Raised == last.ran /\ last.f.status = "raised"

\* the entries of compute_geodesic_path that returned a value
PathReturns ==
    {i \in 1..Len(Calls) :
        Calls[i].fn = "compute_geodesic_path" /\ Calls[i].ret # Raise}

\* a collaborator method raised in the last call
CollaboratorRaised == \E i \in 1..Len(Calls) : Calls[i].ret = Raise

\* C1 as stated: after every cycle in which compute_geodesic_path returned
\* a value, state is that value.
C1_StateIsPathResultEveryCycle ==
    last.ran => \A i \in PathReturns : state = Calls[i].ret

\* C1: after a cycle that returns, state is the value compute_geodesic_path
\* returned when called once in that cycle with (state before, x_input);
\* after a cycle that raises, state is the state before; run_cycle writes
\* no other value.
C1_StateIsPathResultWhenReturned ==
    /\ Returned =>
          /\ CallsTo("compute_geodesic_path") = 1
          /\ \A i \in PathReturns :
                /\ Calls[i].args = <<last.before, last.x_input>>
                /\ state = Calls[i].ret
          /\ PathReturns # {}
    /\ Raised => state = last.before

\* a returning cycle that replaced the state
C1_Witness ==
    /\ Returned
    /\ state # last.before
    /\ state = PyInt(1)

\* C2: when a collaborator raises during a cycle, the call of run_cycle
\* ends by raising, no call follows the failed one, state keeps the value
\* it had before the cycle and nothing was written to it.
C2_FailureLeavesState ==
    (last.ran /\ CollaboratorRaised) =>
        /\ last.f.status = "raised"
        /\ last.f.exc = "Collaborator"
        /\ Calls[Len(Calls)].ret = Raise
        /\ \A i \in 1..(Len(Calls) - 1) : Calls[i].ret # Raise
        /\ CallsTo("self.state") = 0
        /\ state = last.before

\* a second cycle (the first one committed 1) that fails in its last call
C2_Witness ==
    /\ last.ran /\ CollaboratorRaised
    /\ initial_state = PyInt(0)
    /\ last.before = PyInt(1)
    /\ last.f.h_next = PyInt(1)
    /\ Calls[Len(Calls)].fn = "generate_new_operator"

\* C3: in a cycle where evaluate_coherence returns a score above 0 and no
\* collaborator raises, generate_new_operator is called exactly once.
C3_GeneratesOnceWhenPositive ==
    (last.ran /\ IsInt(last.f.fitness_score) /\ last.f.fitness_score.val > 0
        /\ ~CollaboratorRaised)
    => CallsTo("generate_new_operator") = 1

\* C4: in a cycle where evaluate_coherence returns a score of 0 or less,
\* neither the pattern extraction nor generate_new_operator is called, and
\* the cycle returns with h_next written to state.
C4_NoGenerationAtOrBelowZero ==
    (last.ran /\ IsInt(last.f.fitness_score) /\ last.f.fitness_score.val <= 0)
    => /\ CallsTo("generate_new_operator") = 0
       /\ CallsTo("analyze_geometric_pattern") = 0
       /\ last.f.status = "returned"
       /\ state = last.f.h_next
       /\ Calls[Len(Calls)] = Entry("self.state", <<last.f.h_next>>, None)

C4_Witness ==
    /\ last.ran
    /\ last.f.fitness_score = PyInt(0)
    /\ state = PyInt(1)
    /\ last.before = PyInt(0)

\* C5: with the deterministic collaborators, three cycles with inputs 1, 2,
\* 3 from state 0 all return, the states after them are 1, 3, 6, the
\* fitness scores 1, 2, 3, and each cycle calls generate_new_operator.
C5_ThreeCycles ==
    (/\ collab = "det" /\ initial_state = PyInt(0)
     /\ Len(observed) = 3
     /\ \A i \in 1..3 : observed[i].x_input = PyInt(i))
    => /\ \A i \in 1..3 : observed[i].status = "returned"
       /\ \A i \in 1..3 : observed[i].generated
       /\ <<observed[1].state, observed[2].state, observed[3].state>>
             = <<PyInt(1), PyInt(3), PyInt(6)>>
       /\ \A i \in 1..3 : observed[i].fitness_score = PyInt(i)

\* C6: when evaluate_coherence returns a value that is no number (None, as
\* the shipped method does, or a str), run_cycle raises, and state keeps the
\* value it had before the cycle instead of h_next.
C6_NonNumericScoreAborts ==
    (last.ran /\ last.f.fitness_score \in {None, Str})
    => /\ last.f.status = "raised"
       /\ last.f.exc = "TypeError"
       /\ CallsTo("self.state") = 0
       /\ CallsTo("generate_new_operator") = 0
       /\ state = last.before

\* the shipped classes: every method returns None
C6_Witness ==
    /\ collab = "stub"
    /\ last.ran
    /\ last.f.fitness_score = None
    /\ last.f.h_next = None
    /\ state = PyInt(0)

\* C7: a call of run_cycle, returning or raising, leaves every entry of
\* operator_library in place with its value.
C7_RegistryEntriesKept ==
    [][caller_writes' = caller_writes =>
          \A k \in DOMAIN operator_library :
              /\ k \in DOMAIN operator_library'
              /\ operator_library'[k] = operator_library[k]]_vars

\* a cycle that generated an operator, called with an entry in the registry
C7_Witness ==
    /\ Returned
    /\ DOMAIN last.library # {}
    /\ CallsTo("generate_new_operator") = 1
    /\ operator_library = last.library

\* C8: after construction and before any call of run_cycle, state is the
\* constructor's argument, no collaborator method has been called, the
\* memory trace is empty, and the registry is empty until the caller
\* writes to it.
C8_FreshSolver ==
    ~last.ran =>
        /\ state = initial_state
        /\ Calls = <<>>
        /\ memory_trace = <<>>
        /\ (caller_writes = 0 => operator_library = EmptyDict)

C8_Witness ==
    /\ ~last.ran
    /\ caller_writes = 0
    /\ initial_state = PyInt(0)
    /\ state = PyInt(0)

\* C9: a cycle that returns has made its calls in this order: get_next_seed,
\* compute_geodesic_path(state before, x_input), perceive_tension(state
\* before), perceive_tension(h_next), evaluate_coherence(old, new), then, if
\* the score is above 0, analyze_geometric_pattern(h_next) and
\* generate_new_operator(pattern); the write of h_next to state is last.
C9_CallOrder ==
    Returned =>
        /\ Len(Calls) >= 6
        /\ Calls[1].fn = "get_next_seed" /\ Calls[1].args = <<>>
        /\ Calls[2].fn = "compute_geodesic_path"
        /\ Calls[2].args = <<last.before, last.x_input>>
        /\ Calls[3].fn = "perceive_tension" /\ Calls[3].args = <<last.before>>
        /\ Calls[4].fn = "perceive_tension" /\ Calls[4].args = <<Calls[2].ret>>
        /\ Calls[5].fn = "evaluate_coherence"
        /\ Calls[5].args = <<Calls[3].ret, Calls[4].ret>>
        /\ IF IsInt(Calls[5].ret) /\ Calls[5].ret.val > 0
           THEN /\ Len(Calls) = 8
                /\ Calls[6].fn = "analyze_geometric_pattern"
                /\ Calls[6].args = <<Calls[2].ret>>
                /\ Calls[7].fn = "generate_new_operator"
                /\ Calls[7].args = <<Calls[6].ret>>
           ELSE Len(Calls) = 6
        /\ Calls[Len(Calls)] = Entry("self.state", <<Calls[2].ret>>, None)
        /\ state = Calls[2].ret

\* a returning cycle with all seven calls and two different measurements
C9_Witness ==
    /\ Returned
    /\ Len(Calls) = 8
    /\ Calls[3].ret # Calls[4].ret
    /\ last.before # Calls[2].ret

\* the cycle without what it holds of the seed
WithoutSeed(f) == [f EXCEPT !.pi_seed = Unset, !.calls = Tail(@)]

\* C10: every call of run_cycle calls get_next_seed exactly once, and with
\* any other seed returned the cycle makes the same calls with the same
\* arguments, gets the same score and ends with the same state.
C10_SeedUnused ==
    last.ran =>
        /\ CallsTo("get_next_seed") = 1
        /\ Calls[1].fn = "get_next_seed"
        /\ (collab = "any" /\ last.ans.seed # Raise) =>
              \A s \in SeedAnswers \ {Raise} :
                  WithoutSeed(RunCycle(last.before, last.x_input, collab,
                                       has_analyze, [last.ans EXCEPT !.seed = s]))
                    = WithoutSeed(last.f)

C10_Witness ==
    /\ Returned
    /\ collab = "any"
    /\ last.ans.seed = PyInt(1)
    /\ CallsTo("generate_new_operator") = 1

====
